---------------------------- MODULE Spec2Model ----------------------------
(***************************************************************************)
(* A model of the legal-research relay's document renderer                 *)
(* (createDocxDocument in src/index.ts: the markdown normalizer            *)
(* parseMarkdownWithLinks, the paragraph segmentation, the link            *)
(* re-insertion createParagraphWithLinks and the document layout) and of   *)
(* the POST /api/legal-research handler that calls it; and of the PDF      *)
(* report of the EmailService (generatePDF and splitTextToFit).            *)
(*                                                                         *)
(* A JavaScript string is a sequence of one-character strings; indices     *)
(* are 0-based as in the source (At(s, i) is s[i]).  The bullet glyph      *)
(* U+2022 is the single character Bullet, the grave accent Backtick.       *)
(***************************************************************************)
EXTENDS Integers, Sequences, FiniteSets, TLC

VARIABLES
    pc,          \* position in createDocxDocument
    markdown,    \* parameter of parseMarkdownWithLinks (the content)
    text,        \* parseMarkdownWithLinks: let text
    links,       \* parseMarkdownWithLinks: const links
    lastIndex,   \* linkRegex.lastIndex (the /g regex's cursor into markdown)
    offset,      \* parseMarkdownWithLinks: let offset
    paragraphs,  \* createDocxDocument: let paragraphs
    doc,         \* the children of the Document's single section
    hpc,         \* position in the POST /api/legal-research handler
    req,         \* the request body and the environment it meets
    result,      \* the upstream response text, once read
    docxContent, \* what createDocxDocument returned to the handler
    responses,   \* the responses written to res, in order
    mail,        \* the emails resend.emails.send has accepted
    epc,         \* position in EmailService.generatePDF
    data,        \* generatePDF: its parameter
    promptLines, \* generatePDF: const promptLines
    resultLines, \* generatePDF: const resultLines
    yPosition,   \* generatePDF: let yPosition
    iter,        \* generatePDF: how many lines the running for loop has taken
    pages,       \* the pages of the jsPDF document
    drawn,       \* the pdf.text calls so far: what, on which page, where
    spc,         \* position in EmailService.splitTextToFit
    maxWidth,    \* splitTextToFit: its parameters text (as words are split
    stext,       \*   from it) and maxWidth
    words,       \* splitTextToFit: the words the for loop has yet to take
    lines,       \* splitTextToFit: const lines
    currentLine  \* splitTextToFit: let currentLine

vars == <<pc, markdown, text, links, lastIndex, offset, paragraphs, doc,
          hpc, req, result, docxContent, responses, mail,
          epc, data, promptLines, resultLines, yPosition, iter, pages, drawn,
          spc, maxWidth, stext, words, lines, currentLine>>

rvars == <<pc, markdown, text, links, lastIndex, offset, paragraphs, doc>>
hvars == <<hpc, req, result, docxContent, responses, mail>>
pvars == <<epc, data, promptLines, resultLines, yPosition, iter, pages, drawn>>
svars == <<spc, maxWidth, stext, words, lines, currentLine>>

----------------------------------------------------------------------------
(* Characters *)

Bullet == "U+2022"
\* the grave accent, which a string of this language cannot hold
Backtick == "U+0060"
NL == "\n"

\* \s of a JavaScript regex and the set String.prototype.trim strips,
\* restricted to the characters a model string can hold.
WhiteSpace == {" ", "\n", "\t", "\r"}
\* the characters . does not match and ^ / $ (with /m) break lines at
LineTerminators == {"\n", "\r"}
Upper == {"A", "B", "C", "D", "E", "F", "G", "H", "I", "J", "K", "L", "M",
          "N", "O", "P", "Q", "R", "S", "T", "U", "V", "W", "X", "Y", "Z"}
RomanDigits == {"I", "V", "X"}
Digits == {"0", "1", "2", "3", "4", "5", "6", "7", "8", "9"}
ListMarkers == {"-", "*", "+"}

----------------------------------------------------------------------------
(* String primitives of the JavaScript runtime *)

At(s, i) == s[i + 1]

Min(a, b) == IF a < b THEN a ELSE b
Max(a, b) == IF a > b THEN a ELSE b
Clamp(i, n) == Max(0, Min(i, n))

\* String.prototype.substring(a, b): both ends clamped, swapped if a > b
Substring(s, a, b) ==
    LET lo == Min(Clamp(a, Len(s)), Clamp(b, Len(s)))
        hi == Max(Clamp(a, Len(s)), Clamp(b, Len(s)))
    IN  [k \in 1..(hi - lo) |-> s[lo + k]]

Tail0(s, a) == Substring(s, a, Len(s))

StartsWithAt(s, sub, i) ==
    /\ i >= 0
    /\ i + Len(sub) <= Len(s)
    /\ \A k \in 1..Len(sub) : s[i + k] = sub[k]

\* String.prototype.indexOf(sub, from): least index >= from, or -1
RECURSIVE IndexOf(_, _, _)
IndexOf(s, sub, from) ==
    IF from + Len(sub) > Len(s) THEN -1
    ELSE IF StartsWithAt(s, sub, from) THEN from
    ELSE IndexOf(s, sub, from + 1)

Includes(s, sub) == IndexOf(s, sub, 0) >= 0

\* least index >= from holding a character of set cs, or -1
RECURSIVE IndexOfAny(_, _, _)
IndexOfAny(s, cs, from) ==
    IF from >= Len(s) THEN -1
    ELSE IF At(s, from) \in cs THEN from
    ELSE IndexOfAny(s, cs, from + 1)

\* least index >= from holding a character outside cs, or Len(s)
RECURSIVE SkipAll(_, _, _)
SkipAll(s, cs, from) ==
    IF from >= Len(s) THEN Len(s)
    ELSE IF At(s, from) \notin cs THEN from
    ELSE SkipAll(s, cs, from + 1)

\* String.prototype.trim
RECURSIVE TrimEnd(_)
TrimEnd(s) ==
    IF Len(s) > 0 /\ s[Len(s)] \in WhiteSpace
    THEN TrimEnd(Substring(s, 0, Len(s) - 1))
    ELSE s

Trim(s) == TrimEnd(Tail0(s, SkipAll(s, WhiteSpace, 0)))

\* String.prototype.split(sep) for a non-empty separator string
RECURSIVE Split(_, _)
Split(s, sep) ==
    LET i == IndexOf(s, sep, 0)
    IN  IF i < 0 THEN <<s>>
        ELSE <<Substring(s, 0, i)>> \o Split(Tail0(s, i + Len(sep)), sep)

\* the expansion of a replacement string (GetSubstitution) when the pattern
\* is a string, so there are no captures: $$ is "$", $& the matched text,
\* $ with a grave accent the text before it, $' the text after it; every
\* other $ is literal.
RECURSIVE GetSubstitution(_, _, _, _)
GetSubstitution(repl, matched, before, after) ==
    IF repl = <<>> THEN <<>>
    ELSE IF Head(repl) = "$" /\ Len(repl) >= 2 /\ repl[2] \in {"$", "&", Backtick, "'"}
    THEN (CASE repl[2] = "$" -> <<"$">>
            [] repl[2] = "&" -> matched
            [] repl[2] = Backtick -> before
            [] repl[2] = "'" -> after)
         \o GetSubstitution(Tail(Tail(repl)), matched, before, after)
    ELSE <<Head(repl)>> \o GetSubstitution(Tail(repl), matched, before, after)

\* String.prototype.replace(pattern, replacement) with a string pattern:
\* the first occurrence only
ReplaceFirst(s, pattern, repl) ==
    LET i == IndexOf(s, pattern, 0)
    IN  IF i < 0 THEN s
        ELSE Substring(s, 0, i)
             \o GetSubstitution(repl, pattern, Substring(s, 0, i),
                                Tail0(s, i + Len(pattern)))
             \o Tail0(s, i + Len(pattern))

----------------------------------------------------------------------------
(* The regular expressions of parseMarkdownWithLinks *)

\* String.prototype.charAt: "" outside the string
CharAt(s, i) == IF i >= 0 /\ i < Len(s) THEN s[i + 1] ELSE ""

NoMatch == [index |-> -1]

\* /\[([^\]]+)\]\(([^)]+)\)/ anchored at i: the label runs to the first "]"
\* and the url to the first ")" after "](", both non-empty.
LinkMatchAt(s, i) ==
    IF CharAt(s, i) # "[" THEN NoMatch
    ELSE LET j == IndexOfAny(s, {"]"}, i + 1)
         IN  IF j < 0 \/ j = i + 1 \/ CharAt(s, j + 1) # "(" THEN NoMatch
             ELSE LET k == IndexOfAny(s, {")"}, j + 2)
                  IN  IF k < 0 \/ k = j + 2 THEN NoMatch
                      ELSE [index     |-> i,
                            fullMatch |-> Substring(s, i, k + 1),
                            linkText  |-> Substring(s, i + 1, j),
                            url       |-> Substring(s, j + 2, k)]

\* linkRegex.exec(s) with lastIndex = from: the leftmost match at or after
\* from, or NoMatch (null)
RECURSIVE LinkExec(_, _)
LinkExec(s, from) ==
    IF from >= Len(s) THEN NoMatch
    ELSE LET m == LinkMatchAt(s, from)
         IN  IF m.index >= 0 THEN m ELSE LinkExec(s, from + 1)

\* ^ with the /m flag
AtLineStart(s, i) == i = 0 \/ CharAt(s, i - 1) \in LineTerminators

\* where .* stops, and $ with the /m flag holds, scanning from i
LineEnd(s, i) ==
    LET j == IndexOfAny(s, LineTerminators, i)
    IN  IF j < 0 THEN Len(s) ELSE j

Hashes(k) == [n \in 1..k |-> "#"]

\* /^### (.*$)/gm, /^## (.*$)/gm, /^# (.*$)/gm with k = 3, 2, 1
HeaderMatchLen(s, i, k) ==
    IF AtLineStart(s, i) /\ StartsWithAt(s, Hashes(k) \o <<" ">>, i)
    THEN LineEnd(s, i + k + 1) - i
    ELSE -1

\* '### $1\n', '## $1\n', '# $1\n'
HeaderSubst(s, i, n, k) ==
    Hashes(k) \o <<" ">> \o Substring(s, i + k + 1, i + n) \o <<NL>>

\* the end of a lazy (.*?) that started at or before k and must be followed
\* by closer: the least such index, or -1 when a line terminator or the end
\* of the string comes first
RECURSIVE LazyUntil(_, _, _)
LazyUntil(s, k, closer) ==
    IF StartsWithAt(s, closer, k) THEN k
    ELSE IF k >= Len(s) \/ CharAt(s, k) \in LineTerminators THEN -1
    ELSE LazyUntil(s, k + 1, closer)

Stars(k) == [n \in 1..k |-> "*"]

\* /\*\*(.*?)\*\*/g with k = 2, /\*(.*?)\*/g with k = 1
EmphasisMatchLen(s, i, k) ==
    IF ~StartsWithAt(s, Stars(k), i) THEN -1
    ELSE LET c == LazyUntil(s, i + k, Stars(k))
         IN  IF c < 0 THEN -1 ELSE c + k - i

\* fault: the replacement is '$1', the markers are dropped
EmphasisStripped(s, i, n, k) == Substring(s, i + k, i + n - k)

\* '**$1**', '*$1*'
EmphasisSubst(s, i, n, k) ==
    Stars(k) \o Substring(s, i + k, i + n - k) \o Stars(k)

\* the length of the enumerator at i: [A-Z] (one letter), or [IVX]+ (the
\* whole run: a shorter one is followed by a numeral, not by "."); 0 if none
EnumLen(s, i, roman) ==
    IF roman THEN SkipAll(s, RomanDigits, i) - Min(i, Len(s))
    ELSE IF CharAt(s, i) \in Upper THEN 1 ELSE 0

\* /([A-Z]\.\s+[^.]*?\.)\s+([A-Z]\.\s+)/ (roman: [IVX]+ for [A-Z]) anchored
\* at i: the places of the match, or NoMatch.  Group 1 is s[i..dot], the
\* separator s[dot+1..second), group 2 s[second..end).
OutlineMatchAt(s, i, roman) ==
    LET e1  == EnumLen(s, i, roman)
        dot == IndexOfAny(s, {"."}, i + e1 + 1)
    IN  IF \/ e1 = 0
           \/ CharAt(s, i + e1) # "."
           \/ CharAt(s, i + e1 + 1) \notin WhiteSpace
           \/ dot < 0
        THEN NoMatch
        ELSE LET second == SkipAll(s, WhiteSpace, dot + 1)
                 e2     == EnumLen(s, second, roman)
                 end    == SkipAll(s, WhiteSpace, second + e2 + 1)
             IN  IF \/ second = dot + 1
                    \/ e2 = 0
                    \/ CharAt(s, second + e2) # "."
                    \/ end = second + e2 + 1
                 THEN NoMatch
                 ELSE [index |-> i, dot |-> dot, second |-> second, end |-> end]

OutlineMatchLen(s, i, roman) ==
    LET m == OutlineMatchAt(s, i, roman)
    IN  IF m.index < 0 THEN -1 ELSE m.end - i

\* fault: the replacement is '$1 $2', no line break is put in
OutlineJoinedBySpace(s, i, n, roman) ==
    LET m == OutlineMatchAt(s, i, roman)
    IN  Substring(s, i, m.dot + 1) \o <<" ">> \o Substring(s, m.second, m.end)

\* '$1\n$2'
OutlineSubst(s, i, n, roman) ==
    LET m == OutlineMatchAt(s, i, roman)
    IN  Substring(s, i, m.dot + 1) \o <<NL>> \o Substring(s, m.second, m.end)

\* /\n\n+/g
BlankMatchLen(s, i) ==
    IF CharAt(s, i) = NL /\ CharAt(s, i + 1) = NL
    THEN SkipAll(s, {NL}, i) - i
    ELSE -1

\* fault: the class is [-*], "+" is forgotten
DashOrStarMatchLen(s, i) ==
    IF AtLineStart(s, i) /\ CharAt(s, i) \in {"-", "*"} /\ CharAt(s, i + 1) = " "
    THEN LineEnd(s, i + 2) - i
    ELSE -1

\* /^[-*+] (.*$)/gm
BulletMatchLen(s, i) ==
    IF AtLineStart(s, i) /\ CharAt(s, i) \in ListMarkers /\ CharAt(s, i + 1) = " "
    THEN LineEnd(s, i + 2) - i
    ELSE -1

\* /^\d+\. (.*$)/gm
NumberMatchLen(s, i) ==
    LET d == SkipAll(s, Digits, i)
    IN  IF /\ AtLineStart(s, i)
           /\ i < Len(s)
           /\ d > i
           /\ CharAt(s, d) = "."
           /\ CharAt(s, d + 1) = " "
        THEN LineEnd(s, d + 2) - i
        ELSE -1

\* "• $1\n", where the group starts keep characters into the match
ListSubst(s, i, n, keep) ==
    <<Bullet, " ">> \o Substring(s, i + keep, i + n) \o <<NL>>

\* The length of the match of regex rx that starts at i, or -1
MatchLen(rx, s, i) ==
    CASE rx = "h3"      -> HeaderMatchLen(s, i, 3)
      [] rx = "h2"      -> HeaderMatchLen(s, i, 2)
      [] rx = "h1"      -> HeaderMatchLen(s, i, 1)
      [] rx = "bold"    -> EmphasisMatchLen(s, i, 2)
      [] rx = "italic"  -> EmphasisMatchLen(s, i, 1)
      [] rx = "letters" -> OutlineMatchLen(s, i, FALSE)
      [] rx = "roman"   -> OutlineMatchLen(s, i, TRUE)
      [] rx = "blank"   -> BlankMatchLen(s, i)
      [] rx = "bullet"  -> BulletMatchLen(s, i)
      [] rx = "number"  -> NumberMatchLen(s, i)

\* What the match s[i..i+n) of regex rx is replaced by
Subst(rx, s, i, n) ==
    CASE rx = "h3"      -> HeaderSubst(s, i, n, 3)
      [] rx = "h2"      -> HeaderSubst(s, i, n, 2)
      [] rx = "h1"      -> HeaderSubst(s, i, n, 1)
      [] rx = "bold"    -> EmphasisSubst(s, i, n, 2)
      [] rx = "italic"  -> EmphasisSubst(s, i, n, 1)
      [] rx = "letters" -> OutlineSubst(s, i, n, FALSE)
      [] rx = "roman"   -> OutlineSubst(s, i, n, TRUE)
      [] rx = "blank"   -> <<NL, NL>>
      [] rx = "bullet"  -> ListSubst(s, i, n, 2)
      [] rx = "number"  -> ListSubst(s, i, n, SkipAll(s, Digits, i) - i + 2)

\* String.prototype.replace(regex, replacement) with a /g regex: leftmost
\* matches, left to right, none overlapping; the search resumes where the
\* last match ended.  None of these regexes matches the empty string.
RECURSIVE ReplaceFrom(_, _, _)
ReplaceFrom(rx, s, i) ==
    IF i >= Len(s) THEN <<>>
    ELSE LET n == MatchLen(rx, s, i)
         IN  IF n > 0
             THEN Subst(rx, s, i, n) \o ReplaceFrom(rx, s, i + n)
             ELSE <<At(s, i)>> \o ReplaceFrom(rx, s, i + 1)

ReplaceAll(rx, s) == ReplaceFrom(rx, s, 0)

----------------------------------------------------------------------------
(* The steps of parseMarkdownWithLinks after the link loop *)

\* Convert headers to plain text with prefix
HeaderStep(t) == ReplaceAll("h1", ReplaceAll("h2", ReplaceAll("h3", t)))

\* Convert bold, then italic, to readable format
EmphasisStep(t) == ReplaceAll("italic", ReplaceAll("bold", t))

\* Handle outline structure: lettered items
LettersStep(t) == ReplaceAll("letters", t)

\* Handle Roman numeral items
RomanStep(t) == ReplaceAll("roman", t)

\* Ensure proper paragraph breaks
CollapseStep(t) == ReplaceAll("blank", t)

\* Convert list items to bullet points
ListStep(t) == ReplaceAll("number", ReplaceAll("bullet", t))

----------------------------------------------------------------------------
(* createDocxDocument after parseMarkdownWithLinks *)

\* fault: the filter is left out
KeepAll(ps) == ps

RECURSIVE NonBlank(_)
\* .filter(p => p.trim().length > 0)
NonBlank(ps) ==
    IF ps = <<>> THEN <<>>
    ELSE (IF Len(Trim(Head(ps))) > 0 THEN <<Head(ps)>> ELSE <<>>)
         \o NonBlank(Tail(ps))

\* fault: the lines of a paragraph are not filtered
RECURSIVE UnfilteredParagraphs(_)
UnfilteredParagraphs(ps) ==
    IF ps = <<>> THEN <<>>
    ELSE (IF Includes(Head(ps), <<NL>>)
          THEN Split(Head(ps), <<NL>>)
          ELSE <<Head(ps)>>)
         \o UnfilteredParagraphs(Tail(ps))

\* the for loop that fills finalParagraphs
RECURSIVE FinalParagraphs(_)
FinalParagraphs(ps) ==
    IF ps = <<>> THEN <<>>
    ELSE (IF Includes(Head(ps), <<NL>>)
          THEN NonBlank(Split(Head(ps), <<NL>>))
          ELSE <<Head(ps)>>)
         \o FinalParagraphs(Tail(ps))

\* parsedContent.split('\n\n').filter(...), then the further split
Segment(parsedContent) ==
    FinalParagraphs(NonBlank(Split(parsedContent, <<NL, NL>>)))

\* new TextRun({...}): the options the source sets, the others at rest
PlainRun(t) ==
    [text |-> t, color |-> "", underline |-> FALSE, size |-> 0, bold |-> FALSE]
\* fault: the run of a label gets no link style
UnstyledRun(t) ==
    [text |-> t, color |-> "", underline |-> FALSE, size |-> 0, bold |-> FALSE]
LinkRun(t) ==
    [text |-> t, color |-> "0563C1", underline |-> TRUE, size |-> 0, bold |-> FALSE]
UrlRun(url) ==
    [text |-> <<" ", "(">> \o url \o <<")">>,
     color |-> "666666", underline |-> FALSE, size |-> 20, bold |-> FALSE]

\* links.filter(link => paragraphText.includes(link.text) &&
\*                      paragraphText.indexOf(link.text) >= currentIndex)
\* with currentIndex still 0
RECURSIVE LinksIn(_, _)
LinksIn(ls, paragraphText) ==
    IF ls = <<>> THEN <<>>
    ELSE (IF /\ Includes(paragraphText, Head(ls).text)
             /\ IndexOf(paragraphText, Head(ls).text, 0) >= 0
          THEN <<Head(ls)>> ELSE <<>>)
         \o LinksIn(Tail(ls), paragraphText)

\* one insertion of a stable sort by start
RECURSIVE InsertByStart(_, _)
InsertByStart(sorted, l) ==
    IF sorted = <<>> THEN <<l>>
    ELSE IF Head(sorted).start <= l.start
    THEN <<Head(sorted)>> \o InsertByStart(Tail(sorted), l)
    ELSE <<l>> \o sorted

\* .sort((a, b) => a.start - b.start), which is stable
RECURSIVE SortByStart(_)
SortByStart(ls) ==
    IF ls = <<>> THEN <<>>
    ELSE InsertByStart(SortByStart(SubSeq(ls, 1, Len(ls) - 1)), ls[Len(ls)])

\* fault: currentIndex is set to linkStart, not moved past the label
RECURSIVE LinkRunsCursorAtLabel(_, _, _)
LinkRunsCursorAtLabel(paragraphText, sortedLinks, currentIndex) ==
    IF sortedLinks = <<>>
    THEN IF currentIndex < Len(paragraphText)
         THEN <<PlainRun(Tail0(paragraphText, currentIndex))>>
         ELSE <<>>
    ELSE LET link      == Head(sortedLinks)
             linkStart == IndexOf(paragraphText, link.text, currentIndex)
         IN  IF linkStart = -1
             THEN LinkRunsCursorAtLabel(paragraphText, Tail(sortedLinks), currentIndex)
             ELSE (IF linkStart > currentIndex
                   THEN <<PlainRun(Substring(paragraphText, currentIndex, linkStart))>>
                   ELSE <<>>)
                  \o <<LinkRun(link.text), UrlRun(link.url)>>
                  \o LinkRunsCursorAtLabel(paragraphText, Tail(sortedLinks), linkStart)

\* the for loop over sortedLinks, then the remaining text
RECURSIVE LinkRuns(_, _, _)
LinkRuns(paragraphText, sortedLinks, currentIndex) ==
    IF sortedLinks = <<>>
    THEN IF currentIndex < Len(paragraphText)
         THEN <<PlainRun(Tail0(paragraphText, currentIndex))>>
         ELSE <<>>
    ELSE LET link      == Head(sortedLinks)
             linkStart == IndexOf(paragraphText, link.text, currentIndex)
         IN  IF linkStart = -1
             THEN LinkRuns(paragraphText, Tail(sortedLinks), currentIndex)
             ELSE (IF linkStart > currentIndex
                   THEN <<PlainRun(Substring(paragraphText, currentIndex, linkStart))>>
                   ELSE <<>>)
                  \o <<LinkRun(link.text), UrlRun(link.url)>>
                  \o LinkRuns(paragraphText, Tail(sortedLinks),
                              linkStart + Len(link.text))

\* the children of the Paragraph createParagraphWithLinks returns
CreateParagraphWithLinks(paragraphText, ls) ==
    LET sortedLinks == SortByStart(LinksIn(ls, paragraphText))
    IN  IF Len(sortedLinks) = 0
        THEN <<PlainRun(paragraphText)>>
        ELSE LinkRuns(paragraphText, sortedLinks, 0)

Role(isPlaintiff) == IF isPlaintiff THEN "Plaintiff" ELSE "Defendant"

BoldRun(t) ==
    [text |-> t, color |-> "", underline |-> FALSE, size |-> 0, bold |-> TRUE]

\* the children of the section, top to bottom; a fixed text is kept as the
\* pieces of its template
SectionChildren(ps, ls, documentName, isPlaintiff) ==
    <<[kind |-> "title",
       children |-> <<PlainRun(<<"Legal ", Role(isPlaintiff), " Review Results">>)>>],
      [kind |-> "metadata",
       children |-> <<BoldRun(<<"Document: ", documentName>>)>>],
      [kind |-> "metadata",
       children |-> <<BoldRun(<<"Role: ", Role(isPlaintiff)>>)>>]>>
    \o [k \in 1..Len(ps) |->
          [kind |-> "paragraph",
           children |-> CreateParagraphWithLinks(Trim(ps[k]), ls)]]
    \o <<[kind |-> "footer",
          children |-> <<[text |-> <<"Generated on ", "now">>, color |-> "666666",
                          underline |-> FALSE, size |-> 20, bold |-> FALSE]>>]>>

----------------------------------------------------------------------------
(* createDocxDocument as a state machine *)

\* the link a match records
LinkOf(m, off) ==
    [text  |-> m.linkText,
     url   |-> m.url,
     start |-> m.index - off,
     end   |-> (m.index - off) + Len(m.linkText)]

\* fault: the string replace returns is dropped, text stays as it was
ReplaceDiscarded(t, m) == t

\* text.replace(fullMatch, linkText)
StripLink(t, m) == ReplaceFirst(t, m.fullMatch, m.linkText)

\* one iteration of the while loop: the next match is recorded and its first
\* occurrence in text replaced by the label
ExtractLink ==
    /\ pc = "extract"
    /\ LET m == LinkExec(markdown, lastIndex)
       IN  /\ m.index >= 0
           /\ links' = Append(links, LinkOf(m, offset))
           /\ text' = StripLink(text, m)
           /\ offset' = offset + (Len(m.fullMatch) - Len(m.linkText))
           /\ lastIndex' = m.index + Len(m.fullMatch)
    /\ UNCHANGED <<pc, markdown, paragraphs, doc, hvars, pvars, svars>>

\* exec returns null: the loop ends (and exec resets lastIndex)
ExtractDone ==
    /\ pc = "extract"
    /\ LinkExec(markdown, lastIndex).index < 0
    /\ pc' = "links"
    /\ lastIndex' = 0
    /\ UNCHANGED <<markdown, text, links, offset, paragraphs, doc, hvars, pvars, svars>>

NormalizeHeaders ==
    /\ pc = "links"
    /\ text' = HeaderStep(text)
    /\ pc' = "headers"
    /\ UNCHANGED <<markdown, links, lastIndex, offset, paragraphs, doc, hvars, pvars, svars>>

NormalizeEmphasis ==
    /\ pc = "headers"
    /\ text' = EmphasisStep(text)
    /\ pc' = "emphasis"
    /\ UNCHANGED <<markdown, links, lastIndex, offset, paragraphs, doc, hvars, pvars, svars>>

OutlineLetters ==
    /\ pc = "emphasis"
    /\ text' = LettersStep(text)
    /\ pc' = "letters"
    /\ UNCHANGED <<markdown, links, lastIndex, offset, paragraphs, doc, hvars, pvars, svars>>

OutlineRoman ==
    /\ pc = "letters"
    /\ text' = RomanStep(text)
    /\ pc' = "roman"
    /\ UNCHANGED <<markdown, links, lastIndex, offset, paragraphs, doc, hvars, pvars, svars>>

CollapseBlankLines ==
    /\ pc = "roman"
    /\ text' = CollapseStep(text)
    /\ pc' = "collapsed"
    /\ UNCHANGED <<markdown, links, lastIndex, offset, paragraphs, doc, hvars, pvars, svars>>

\* the last step of parseMarkdownWithLinks: text is what it returns
ConvertLists ==
    /\ pc = "collapsed"
    /\ text' = ListStep(text)
    /\ pc' = "normalized"
    /\ UNCHANGED <<markdown, links, lastIndex, offset, paragraphs, doc, hvars, pvars, svars>>

SegmentParagraphs ==
    /\ pc = "normalized"
    /\ paragraphs' = Segment(text)
    /\ pc' = "segmented"
    /\ UNCHANGED <<markdown, text, links, lastIndex, offset, doc, hvars, pvars, svars>>

DocumentNames == {"Unknown", "brief.pdf"}

\* new Document({sections: [{children: [...]}]}), for the documentName and
\* isPlaintiff the caller passed
AssembleDocument ==
    /\ pc = "segmented"
    /\ \E documentName \in DocumentNames, isPlaintiff \in BOOLEAN :
          doc' = SectionChildren(paragraphs, links, documentName, isPlaintiff)
    /\ pc' = "assembled"
    /\ UNCHANGED <<markdown, text, links, lastIndex, offset, paragraphs, hvars, pvars, svars>>

Render ==
    \/ ExtractLink
    \/ ExtractDone
    \/ NormalizeHeaders
    \/ NormalizeEmphasis
    \/ OutlineLetters
    \/ OutlineRoman
    \/ CollapseBlankLines
    \/ ConvertLists
    \/ SegmentParagraphs
    \/ AssembleDocument

----------------------------------------------------------------------------
(* createDocxDocument as one call, as the request handler makes it *)

\* the while loop of parseMarkdownWithLinks, run to its end
RECURSIVE ExtractLoop(_, _, _, _, _)
ExtractLoop(md, t, ls, last, off) ==
    LET m == LinkExec(md, last)
    IN  IF m.index < 0 THEN [text |-> t, links |-> ls]
        ELSE ExtractLoop(md, StripLink(t, m), Append(ls, LinkOf(m, off)),
                         m.index + Len(m.fullMatch),
                         off + (Len(m.fullMatch) - Len(m.linkText)))

ParseMarkdownWithLinks(md) ==
    LET r == ExtractLoop(md, md, <<>>, 0, 0)
    IN  [text  |-> ListStep(CollapseStep(RomanStep(LettersStep(
                       EmphasisStep(HeaderStep(r.text)))))),
         links |-> r.links]

CreateDocxDocument(content, documentName, isPlaintiff) ==
    LET parsed == ParseMarkdownWithLinks(content)
    IN  SectionChildren(Segment(parsed.text), parsed.links,
                        documentName, isPlaintiff)

----------------------------------------------------------------------------
(* The contents the renderer is run on *)

RECURSIVE Flatten(_)
Flatten(ss) == IF ss = <<>> THEN <<>> ELSE Head(ss) \o Flatten(Tail(ss))

\* the strings made of at most n pieces
Concats(pieces, n) ==
    {Flatten(f) : f \in UNION {[1..k -> pieces] : k \in 0..n}}

NoRequest ==
    [body |-> FALSE, email |-> FALSE, isPlaintiff |-> "undefined",
     fileData |-> FALSE, apiToken |-> FALSE, resendApiKey |-> FALSE]

NotRead == [read |-> FALSE, text |-> <<>>]

NoData == [prompt |-> <<>>, result |-> <<>>, isPlaintiff |-> FALSE, fileName |-> <<>>]

\* no report is being generated
PdfIdle ==
    /\ epc = "idle"
    /\ data = NoData
    /\ promptLines = <<>>
    /\ resultLines = <<>>
    /\ yPosition = 0
    /\ iter = 0
    /\ pages = 0
    /\ drawn = <<>>

\* no text is being wrapped
SplitIdle ==
    /\ spc = "idle"
    /\ maxWidth = 0
    /\ stext = <<>>
    /\ words = <<>>
    /\ lines = <<>>
    /\ currentLine = <<>>

\* no document is being rendered
RenderIdle ==
    /\ pc = "idle"
    /\ markdown = <<>>
    /\ text = <<>>
    /\ links = <<>>
    /\ lastIndex = 0
    /\ offset = 0
    /\ paragraphs = <<>>
    /\ doc = <<>>

\* no request is being handled
HandlerIdle ==
    /\ hpc = "idle"
    /\ req = NoRequest
    /\ result = NotRead
    /\ docxContent = <<>>
    /\ responses = <<>>
    /\ mail = <<>>

RenderInit(contents) ==
    /\ pc = "extract"
    /\ markdown \in contents
    /\ text = markdown
    /\ links = <<>>
    /\ lastIndex = 0
    /\ offset = 0
    /\ paragraphs = <<>>
    /\ doc = <<>>
    /\ HandlerIdle
    /\ PdfIdle
    /\ SplitIdle

\* contents with links: labels that hold brackets, parentheses and
\* replacement patterns, links side by side and links across paragraphs
MaxLinkPieces == 4

LinkPieces ==
    {<<"[">>, <<"a">>, <<" ">>, <<NL>>, <<"$">>, <<"&">>,
     <<"]", "(", "u", ")">>,
     <<"[", "a", "]", "(", "u", ")">>,
     <<"[", "a", "]">>,
     <<"(", "a", ")">>}

InitLinks == RenderInit(Concats(LinkPieces, MaxLinkPieces))

SpecLinks == InitLinks /\ [][Render]_vars

----------------------------------------------------------------------------
(* Link extraction *)

\* C1 (as claimed): when the link loop has ended, every recorded link
\* carries the offset of its label in the text: the substring of text from
\* start to end is the label, and end - start is the label's length.
LinkOffsetsLocateLabels ==
    pc = "links" =>
        \A k \in 1..Len(links) :
            /\ Substring(text, links[k].start, links[k].end) = links[k].text
            /\ links[k].end - links[k].start = Len(links[k].text)

\* C2 (as claimed): the text normalize returns holds no link markup, so
\* normalizing it again extracts no link.
RenormalizeExtractsNothing ==
    pc = "normalized" => ParseMarkdownWithLinks(text).links = <<>>

BracketFree(label) == \A k \in 1..Len(label) : label[k] \notin {"[", "("}

\* C2, with the proviso that no label holds a further "[" or "(": still
\* refuted, by a label with a "$" pattern, which replace expands ("$&" puts
\* the whole markup back).
RenormalizeBracketFreeLabelsExtractsNothing ==
    (pc = "normalized" /\ \A k \in 1..Len(links) : BracketFree(links[k].text))
        => ParseMarkdownWithLinks(text).links = <<>>

PlainLabel(label) == BracketFree(label) /\ \A k \in 1..Len(label) : label[k] # "$"

\* C2, for the inputs the defect of replace does not touch: when no
\* extracted label holds "[", "(" or "$", the text normalize returns holds no
\* link markup, and normalizing it again extracts no link.
RenormalizePlainLabelsExtractsNothing ==
    (pc = "normalized" /\ \A k \in 1..Len(links) : PlainLabel(links[k].text))
        => ParseMarkdownWithLinks(text).links = <<>>

RenormalizePlainLabelsWitness ==
    /\ pc = "normalized"
    /\ Len(links) >= 2
    /\ \A k \in 1..Len(links) : PlainLabel(links[k].text)
    /\ text # markdown
    /\ Includes(text, <<"[">>)

----------------------------------------------------------------------------
(* Link re-insertion *)

\* the ' (url)' annotation runs are the muted, small ones
IsAnnotation(run) == run.color = "666666" /\ run.size = 20

RECURSIVE TextWithoutAnnotations(_)
TextWithoutAnnotations(runs) ==
    IF runs = <<>> THEN <<>>
    ELSE (IF IsAnnotation(Head(runs)) THEN <<>> ELSE Head(runs).text)
         \o TextWithoutAnnotations(Tail(runs))

ParagraphBlocks == SubSeq(doc, 4, Len(doc) - 1)

\* C3: in the assembled document the runs of every paragraph block, the
\* ' (url)' annotations left out, concatenate in order to exactly the
\* (trimmed) text of the paragraph: nothing dropped, doubled or reordered.
RunsSpellParagraph ==
    pc = "assembled" =>
        /\ Len(ParagraphBlocks) = Len(paragraphs)
        /\ \A k \in 1..Len(paragraphs) :
              TextWithoutAnnotations(ParagraphBlocks[k].children)
                  = Trim(paragraphs[k])

\* a paragraph that holds the label of two recorded links only once: the
\* first is re-inserted, the second is not found after the cursor (continue)
RunsSpellParagraphWitness ==
    /\ pc = "assembled"
    /\ Len(links) >= 2
    /\ \E k \in 1..Len(paragraphs) :
          LET annotations ==
                  {j \in 1..Len(ParagraphBlocks[k].children) :
                      IsAnnotation(ParagraphBlocks[k].children[j])}
          IN  /\ Cardinality(annotations) >= 1
              /\ Len(LinksIn(links, Trim(paragraphs[k]))) > Cardinality(annotations)

\* a link-styled run spelling the label, then at once a muted run spelling
\* " (" + url + ")"
HasStyledLink(children, link) ==
    \E j \in 1..(Len(children) - 1) :
        /\ children[j].text = link.text
        /\ children[j].color = "0563C1"
        /\ children[j].underline
        /\ children[j + 1].text = <<" ", "(">> \o link.url \o <<")">>
        /\ children[j + 1].color = "666666"
        /\ ~children[j + 1].underline

\* C4 (as claimed): with exactly one extracted link whose label occurs in
\* the normalized text, some paragraph of the document holds the label as a
\* link-styled run followed at once by the muted ' (url)' run.
SingleLinkInTextIsStyled ==
    (pc = "assembled" /\ Len(links) = 1 /\ Includes(text, links[1].text))
        => \E k \in 1..Len(ParagraphBlocks) :
              HasStyledLink(ParagraphBlocks[k].children, links[1])

\* C4 (amended): with exactly one extracted link whose label occurs within
\* one segmented paragraph as the document holds it (trimmed), that
\* paragraph's block holds the label as a link-styled run followed at once
\* by the muted ' (url)' run.
SingleLinkInParagraphIsStyled ==
    (pc = "assembled" /\ Len(links) = 1) =>
        \A k \in 1..Len(paragraphs) :
            Includes(Trim(paragraphs[k]), links[1].text)
                => HasStyledLink(ParagraphBlocks[k].children, links[1])

SingleLinkInParagraphWitness ==
    /\ pc = "assembled"
    /\ Len(links) = 1
    /\ Len(paragraphs) >= 2
    /\ \E k \in 1..Len(paragraphs) :
          /\ Includes(Trim(paragraphs[k]), links[1].text)
          /\ Len(ParagraphBlocks[k].children) = 4

----------------------------------------------------------------------------
(* Document layout and paragraph segmentation *)

Kinds(blocks) == [k \in 1..Len(blocks) |-> blocks[k].kind]

OnlyWhiteSpace(s) == \A k \in 1..Len(s) : s[k] \in WhiteSpace

\* C8: the assembled document is the title block, the two metadata blocks
\* (document name, then role), one block per segmented paragraph and the
\* footer block, in this order: 4 + (number of paragraphs) blocks; content
\* that is empty or only whitespace gives exactly the four fixed blocks.
DocumentLayout ==
    pc = "assembled" =>
        /\ Len(doc) = 4 + Len(paragraphs)
        /\ Kinds(doc) = <<"title", "metadata", "metadata">>
                         \o [k \in 1..Len(paragraphs) |-> "paragraph"]
                         \o <<"footer">>
        /\ doc[2].children[1].text[1] = "Document: "
        /\ doc[3].children[1].text[1] = "Role: "
        /\ OnlyWhiteSpace(markdown) =>
              Kinds(doc) = <<"title", "metadata", "metadata", "footer">>

DocumentLayoutWitness ==
    /\ pc = "assembled"
    /\ Len(paragraphs) >= 2
    /\ Len(doc) = 4 + Len(paragraphs)

DocumentLayoutBlankWitness ==
    /\ pc = "assembled"
    /\ Len(markdown) >= 2
    /\ OnlyWhiteSpace(markdown)
    /\ Len(doc) = 4

\* the k-th smallest member of a finite set of integers
Kth(S, k) == CHOOSE x \in S : Cardinality({y \in S : y < x}) = k - 1

\* the lines of s: what lies between two neighbouring newlines (or ends)
LinesBetweenNewlines(s) ==
    LET cuts == {0, Len(s) + 1} \cup {i \in 1..Len(s) : s[i] = NL}
    IN  [k \in 1..(Cardinality(cuts) - 1) |->
            SubSeq(s, Kth(cuts, k) + 1, Kth(cuts, k + 1) - 1)]

\* C9: the segmented paragraphs are, in the order of the text, exactly its
\* lines that are not blank: so none is empty after trimming and none holds
\* a newline (also where the text has three or more newlines in a row).
ParagraphsAreNonBlankLines ==
    pc \in {"segmented", "assembled"} =>
        /\ LET NotBlank(l) == ~OnlyWhiteSpace(l)
           IN  paragraphs = SelectSeq(LinesBetweenNewlines(text), NotBlank)
        /\ \A k \in 1..Len(paragraphs) :
              /\ Len(Trim(paragraphs[k])) > 0
              /\ ~Includes(paragraphs[k], <<NL>>)

\* a text with three newlines in a row between two paragraphs
ParagraphsAreNonBlankLinesWitness ==
    /\ pc = "segmented"
    /\ Includes(text, <<NL, NL, NL>>)
    /\ Len(paragraphs) >= 2

----------------------------------------------------------------------------
(* Lists *)

\* contents with list items, blank lines and plain lines
MaxListPieces == 4

ListPieces ==
    {<<"-", " ">>, <<"1", ".", " ">>, <<"a">>, <<" ">>, <<NL>>, <<"+">>, <<"2">>,
     <<"[", "a", "]", "(", "u", ")">>}

InitLists == RenderInit(Concats(ListPieces, MaxListPieces))

SpecLists == InitLists /\ [][Render]_vars

RECURSIVE AllDigits(_)
AllDigits(s) == s = <<>> \/ (Head(s) \in Digits /\ AllDigits(Tail(s)))

\* the length of the list marker a line begins with ("- ", "* ", "+ ", or
\* digits and ". "), 0 if it begins with none
MarkerLen(line) ==
    LET digits == {n \in 1..Len(line) :
                      /\ AllDigits(SubSeq(line, 1, n))
                      /\ CharAt(line, n) = "."
                      /\ CharAt(line, n + 1) = " "}
    IN  IF CharAt(line, 0) \in ListMarkers /\ CharAt(line, 1) = " " THEN 2
        ELSE IF digits # {} THEN 2 + (CHOOSE n \in digits : TRUE)
        ELSE 0

SeqToSet(seq) == {seq[k] : k \in 1..Len(seq)}

\* C7: in the step that converts the lists, every line that begins with a
\* list marker comes out as the bullet glyph, a space and the rest of that
\* line, on a line of its own, and no line of the text the step leaves (the
\* normalized text) begins with a list marker.
ListItemsBecomeBullets ==
    [][(pc = "collapsed" /\ pc' = "normalized") =>
          /\ \A line \in SeqToSet(LinesBetweenNewlines(text)) :
                MarkerLen(line) > 0 =>
                    (<<Bullet, " ">> \o SubSeq(line, MarkerLen(line) + 1, Len(line)))
                        \in SeqToSet(LinesBetweenNewlines(text'))
          /\ \A line \in SeqToSet(LinesBetweenNewlines(text')) :
                MarkerLen(line) = 0]_vars

\* a text with a "- " item, a "+ " item or a numbered item, converted
ListItemsBecomeBulletsWitness ==
    /\ pc = "normalized"
    /\ \E line \in SeqToSet(LinesBetweenNewlines(markdown)) : MarkerLen(line) = 2
    /\ \E line \in SeqToSet(LinesBetweenNewlines(markdown)) : MarkerLen(line) > 2
    /\ Cardinality({k \in 1..Len(text) : text[k] = Bullet}) >= 2

----------------------------------------------------------------------------
(* Headers and emphasis *)

\* contents with header lines and emphasis markers
MaxMarkupPieces == 5

MarkupPieces ==
    {<<"#">>, <<"*">>, <<" ">>, <<"a">>, <<NL>>, <<"[", "a", "]", "(", "u", ")">>}

InitMarkup == RenderInit(Concats(MarkupPieces, MaxMarkupPieces))

SpecMarkup == InitMarkup /\ [][Render]_vars

\* C6 (as claimed): the header step and the emphasis step leave the text
\* as it was.
HeaderAndEmphasisStepsChangeNothing ==
    [][((pc = "links" /\ pc' = "headers") \/ (pc = "headers" /\ pc' = "emphasis"))
          => text' = text]_vars

IsHeaderLine(line) ==
    \E k \in 1..3 :
        /\ Len(line) > k
        /\ \A j \in 1..k : line[j] = "#"
        /\ line[k + 1] = " "

RECURSIVE JoinLines(_)
JoinLines(ls) ==
    IF Len(ls) = 1 THEN ls[1] ELSE ls[1] \o <<NL>> \o JoinLines(Tail(ls))

\* C6 (amended): the emphasis step leaves the text as it was; the header
\* step keeps every line, and appends one newline to each line that begins
\* with one to three "#" and a space (it changes nothing else).
HeaderStepAppendsNewlineEmphasisStepChangesNothing ==
    [][/\ (pc = "headers" /\ pc' = "emphasis") => text' = text
       /\ (pc = "links" /\ pc' = "headers") =>
             LET ls == LinesBetweenNewlines(text)
             IN  text' = JoinLines([k \in 1..Len(ls) |->
                             IF IsHeaderLine(ls[k]) THEN ls[k] \o <<NL>> ELSE ls[k]])]_vars

\* a text with a header line and an emphasis marker, past both steps
HeaderStepWitness ==
    /\ pc = "emphasis"
    /\ \E i \in 0..Len(markdown) : EmphasisMatchLen(markdown, i, 1) > 2
    /\ \E line \in SeqToSet(LinesBetweenNewlines(markdown)) : IsHeaderLine(line)
    /\ Len(text) = Len(markdown) + 1

----------------------------------------------------------------------------
(* Outline breaks *)

\* contents with lettered and Roman-numbered items
MaxOutlinePieces == 4

OutlinePieces ==
    {<<"A", ".", " ", "x", ".", " ">>, <<"I", "V", ".", " ", "x", ".", " ">>,
     <<"A", ".", " ">>, <<"I", ".", " ">>, <<"x", ".">>, <<"x">>, <<" ">>, <<NL>>,
     <<"[", "a", "]", "(", "u", ")">>}

InitOutline == RenderInit(Concats(OutlinePieces, MaxOutlinePieces))

SpecOutline == InitOutline /\ [][Render]_vars

\* the ends b of an enumerator s[a..b) that "." and whitespace follow: one
\* uppercase letter, or Roman numerals
EnumeratorEnds(s, a, roman) ==
    {b \in (a + 1)..Len(s) :
        /\ IF roman THEN \A j \in a..(b - 1) : CharAt(s, j) \in RomanDigits
                    ELSE b = a + 1 /\ CharAt(s, a) \in Upper
        /\ CharAt(s, b) = "."
        /\ CharAt(s, b + 1) \in WhiteSpace}

\* the first "." after a
NextDot(s, a) ==
    {d \in (a + 1)..(Len(s) - 1) :
        CharAt(s, d) = "." /\ \A j \in (a + 1)..(d - 1) : CharAt(s, j) # "."}

\* where the whitespace that starts at a (at least one character) ends
WhiteSpaceEnd(s, a) ==
    {e \in (a + 1)..Len(s) :
        /\ \A j \in a..(e - 1) : CharAt(s, j) \in WhiteSpace
        /\ CharAt(s, e) \notin WhiteSpace}

\* the enumerated pairs of s: an enumerator at i, ".", whitespace, a text
\* without "." and the "." at dot; whitespace; an enumerator at second, ".",
\* and the whitespace after it, up to end
EnumeratedPairs(s, roman) ==
    UNION {UNION {UNION {UNION {UNION {
        {[i |-> i, dot |-> d, second |-> w, end |-> e] :
            e \in WhiteSpaceEnd(s, b + 1)} :
            b \in EnumeratorEnds(s, w, roman)} :
            w \in WhiteSpaceEnd(s, d + 1)} :
            d \in NextDot(s, a)} :
            a \in EnumeratorEnds(s, i, roman)} :
            i \in 0..(Len(s) - 1)}

LeftmostPairBroken(before, after, roman) ==
    LET pairs == EnumeratedPairs(before, roman)
    IN  IF pairs = {} THEN after = before
        ELSE LET p == CHOOSE q \in pairs : \A r \in pairs : q.i <= r.i
             IN  Substring(after, 0, (p.dot + 2) + (p.end - p.second))
                    = Substring(before, 0, p.dot + 1) \o <<NL>>
                      \o Substring(before, p.second, p.end)

RomanPairWitness ==
    /\ pc = "roman"
    /\ markdown = <<"x", "I", "V", ".", " ", "x", ".", " ", "I", ".", " ">>
    /\ text = <<"x", "I", "V", ".", " ", "x", ".", NL, "I", ".", " ">>

----------------------------------------------------------------------------
(* POST /api/legal-research *)

\* res.status(status).json(...)
JsonResponse(status) == [status |-> status, type |-> "application/json", body |-> <<>>]

\* res.set({'Content-Type': 'text/plain', ...}); res.send(result)
TextResponse(body) == [status |-> 200, type |-> "text/plain", body |-> body]

\* the outer catch: res.status(500).json({error: errorMessage})
OuterCatch(sent) == [hpc |-> "done", responses |-> Append(sent, JsonResponse(500))]

\* fault: no catch around the email branch, its error reaches the outer one
EmailErrorEscapes(sent) == [hpc |-> "done", responses |-> Append(sent, JsonResponse(500))]

\* the catch around the email branch: the error is logged, and the handler
\* goes on to return the result
EmailCatch(sent) == [hpc |-> "respond", responses |-> sent]

\* the statuses a response that is not ok can carry
UpstreamErrorStatuses == {401, 500}

\* the texts the upstream API answers with
UpstreamResults ==
    {<<>>,
     <<"a">>,
     <<"[", "a", "]", "(", "u", ")", NL, NL, "-", " ", "a">>}

Requests ==
    [body : BOOLEAN, email : BOOLEAN, isPlaintiff : {"undefined", "true", "false"},
     fileData : BOOLEAN, apiToken : BOOLEAN, resendApiKey : BOOLEAN]

\* a request arrives: its body (parsed, or absent), and the environment
InitHandler ==
    /\ pc = "idle"
    /\ markdown = <<>>
    /\ text = <<>>
    /\ links = <<>>
    /\ lastIndex = 0
    /\ offset = 0
    /\ paragraphs = <<>>
    /\ doc = <<>>
    /\ hpc = "received"
    /\ req \in Requests
    /\ result = NotRead
    /\ docxContent = <<>>
    /\ responses = <<>>
    /\ mail = <<>>
    /\ PdfIdle
    /\ SplitIdle

\* the destructuring of req.body (which throws when there is no body) and
\* the check of API_TOKEN
ReadRequest ==
    /\ hpc = "received"
    /\ IF ~req.body
       THEN /\ hpc' = OuterCatch(responses).hpc
            /\ responses' = OuterCatch(responses).responses
       ELSE IF ~req.apiToken
       THEN /\ hpc' = "done"
            /\ responses' = Append(responses, JsonResponse(500))
       ELSE /\ hpc' = "fetching"
            /\ UNCHANGED responses
    /\ UNCHANGED <<req, result, docxContent, mail, rvars, pvars, svars>>

\* await fetch(...): a response that is ok, one that is not, or a rejection
\* (network error, the 10 minute timeout)
FetchSettles ==
    /\ hpc = "fetching"
    /\ \E outcome \in {"ok", "notOk", "rejects"} :
          IF outcome = "rejects"
          THEN /\ hpc' = OuterCatch(responses).hpc
               /\ responses' = OuterCatch(responses).responses
          ELSE /\ hpc' = IF outcome = "ok" THEN "readingResult" ELSE "readingError"
               /\ UNCHANGED responses
    /\ UNCHANGED <<req, result, docxContent, mail, rvars, pvars, svars>>

\* !response.ok: await response.text(), then the upstream status is relayed
UpstreamError ==
    /\ hpc = "readingError"
    /\ \/ \E status \in UpstreamErrorStatuses :
             /\ hpc' = "done"
             /\ responses' = Append(responses, JsonResponse(status))
       \/ /\ hpc' = OuterCatch(responses).hpc
          /\ responses' = OuterCatch(responses).responses
    /\ UNCHANGED <<req, result, docxContent, mail, rvars, pvars, svars>>

\* const result = await response.text(), then if (email)
ReadResult ==
    /\ hpc = "readingResult"
    /\ \/ \E body \in UpstreamResults :
             /\ result' = [read |-> TRUE, text |-> body]
             /\ hpc' = IF req.email THEN "email" ELSE "respond"
             /\ UNCHANGED responses
       \/ /\ hpc' = OuterCatch(responses).hpc
          /\ responses' = OuterCatch(responses).responses
          /\ UNCHANGED result
    /\ UNCHANGED <<req, docxContent, mail, rvars, pvars, svars>>

\* inside the try of the email branch: without RESEND_API_KEY a warning,
\* else await createDocxDocument(result, ...), which returns the document
\* or rejects (the serialization fails)
CreateDocx ==
    /\ hpc = "email"
    /\ IF ~req.resendApiKey
       THEN /\ hpc' = "respond"
            /\ UNCHANGED <<docxContent, responses>>
       ELSE \/ /\ docxContent' =
                     CreateDocxDocument(result.text,
                         IF req.fileData THEN "brief.pdf" ELSE "Unknown",
                         req.isPlaintiff = "true")
               /\ hpc' = "sending"
               /\ UNCHANGED responses
            \/ /\ hpc' = EmailCatch(responses).hpc
               /\ responses' = EmailCatch(responses).responses
               /\ UNCHANGED docxContent
    /\ UNCHANGED <<req, result, mail, rvars, pvars, svars>>

\* the attachments: the original PDF if there is fileData, then the report
Attachments(fileData, docx) ==
    (IF fileData THEN <<[type |-> "application/pdf", content |-> <<>>]>> ELSE <<>>)
    \o <<[type |-> "application/vnd.openxmlformats-officedocument.wordprocessingml.document",
          content |-> docx]>>

\* await resend.emails.send(emailData): accepted, or it rejects (an error it
\* returns instead is logged like a success and goes on the same way)
SendEmail ==
    /\ hpc = "sending"
    /\ \/ /\ mail' = Append(mail, Attachments(req.fileData, docxContent))
          /\ hpc' = "respond"
          /\ UNCHANGED responses
       \/ /\ hpc' = EmailCatch(responses).hpc
          /\ responses' = EmailCatch(responses).responses
          /\ UNCHANGED mail
    /\ UNCHANGED <<req, result, docxContent, rvars, pvars, svars>>

\* Return the result as plain text
SendResult ==
    /\ hpc = "respond"
    /\ responses' = Append(responses, TextResponse(result.text))
    /\ hpc' = "done"
    /\ UNCHANGED <<req, result, docxContent, mail, rvars, pvars, svars>>

Handle ==
    \/ ReadRequest
    \/ FetchSettles
    \/ UpstreamError
    \/ ReadResult
    \/ CreateDocx
    \/ SendEmail
    \/ SendResult

SpecHandler == InitHandler /\ [][Handle]_vars

\* C10: a request gets no response before the handler is done and exactly
\* one when it is, on every path; and once the upstream result has been
\* read, that response is the result as plain text with status 200,
\* whatever happened to the document and the email.
OneResponseAndEmailFailureIsCaught ==
    /\ Len(responses) = (IF hpc = "done" THEN 1 ELSE 0)
    /\ (hpc = "done" /\ result.read) => responses[1] = TextResponse(result.text)
    /\ (hpc = "done" /\ ~result.read) => responses[1].type = "application/json"

\* an email was asked for and the key is set, the result was read, no email
\* went out (the document or the sending failed), and the result was returned
EmailFailureWitness ==
    /\ hpc = "done"
    /\ req.email /\ req.resendApiKey
    /\ result.read /\ Len(result.text) > 0
    /\ docxContent # <<>>
    /\ mail = <<>>
    /\ responses = <<TextResponse(result.text)>>

----------------------------------------------------------------------------
(* EmailService.splitTextToFit *)

\* text.split(' '): what lies between two neighbouring spaces (or ends)
SplitOnSpace(t) ==
    LET cuts == {0, Len(t) + 1} \cup {i \in 1..Len(t) : t[i] = " "}
        cut(k) == CHOOSE x \in cuts : Cardinality({y \in cuts : y < x}) = k
    IN  [k \in 1..(Cardinality(cuts) - 1) |->
            SubSeq(t, cut(k - 1) + 1, cut(k) - 1)]

\* testLine.length * 2.5 <= maxWidth (for a whole maxWidth, times two)
FitsWidth(testLine, w) == Len(testLine) * 5 <= w * 2

\* currentLine ? `${currentLine} ${word}` : word
TestLine(cur, word) == IF cur # <<>> THEN cur \o <<" ">> \o word ELSE word

\* the body of the for loop: the lines and the current line after word
TakeWord(ls, cur, word, w) ==
    IF FitsWidth(TestLine(cur, word), w)
    THEN [lines |-> ls, currentLine |-> TestLine(cur, word)]
    ELSE [lines |-> IF cur # <<>> THEN Append(ls, cur) ELSE ls,
          currentLine |-> word]

\* if (currentLine) lines.push(currentLine); return lines
LastLine(ls, cur) == IF cur # <<>> THEN Append(ls, cur) ELSE ls

\* the for loop over the words ws
RECURSIVE WrapWords(_, _, _, _)
WrapWords(ws, ls, cur, w) ==
    IF ws = <<>> THEN LastLine(ls, cur)
    ELSE LET r == TakeWord(ls, cur, Head(ws), w)
         IN  WrapWords(Tail(ws), r.lines, r.currentLine, w)

SplitTextToFit(t, w) == WrapWords(SplitOnSpace(t), <<>>, <<>>, w)

\* const words = text.split(' '); const lines = []; let currentLine = ''
SplitIntoWords ==
    /\ spc = "called"
    /\ words' = SplitOnSpace(stext)
    /\ lines' = <<>>
    /\ currentLine' = <<>>
    /\ spc' = "loop"
    /\ UNCHANGED <<maxWidth, stext, rvars, hvars, pvars>>

\* one iteration of for (const word of words)
NextWord ==
    /\ spc = "loop"
    /\ words # <<>>
    /\ LET r == TakeWord(lines, currentLine, Head(words), maxWidth)
       IN  /\ lines' = r.lines
           /\ currentLine' = r.currentLine
    /\ words' = Tail(words)
    /\ UNCHANGED <<spc, maxWidth, stext, rvars, hvars, pvars>>

\* the loop has ended: the last line is pushed and lines returned
ReturnLines ==
    /\ spc = "loop"
    /\ words = <<>>
    /\ lines' = LastLine(lines, currentLine)
    /\ spc' = "returned"
    /\ UNCHANGED <<maxWidth, stext, words, currentLine, rvars, hvars, pvars>>

Wrap ==
    \/ SplitIntoWords
    \/ NextWord
    \/ ReturnLines

\* n times the character c
Repeat(c, n) == [k \in 1..n |-> c]

\* the width generatePDF wraps to: splitTextToFit(prompt, 170)
PageWidth == 170

\* a word one character longer than the 68 that fit PageWidth
OverlongWordLen == 69

\* the widths splitTextToFit is run with: PageWidth, and one of four characters
WrapWidths == {10, PageWidth}

MaxWrapPieces == 5

WrapPieces == {<<"a">>, <<"b", "c">>, <<" ">>, Repeat("x", OverlongWordLen)}

InitWrap ==
    /\ RenderIdle
    /\ HandlerIdle
    /\ PdfIdle
    /\ spc = "called"
    /\ maxWidth \in WrapWidths
    /\ stext \in Concats(WrapPieces, MaxWrapPieces)
    /\ words = <<>>
    /\ lines = <<>>
    /\ currentLine = <<>>

SpecWrap == InitWrap /\ [][Wrap]_vars

----------------------------------------------------------------------------
(* EmailService.parseMarkdownToText and generatePDF *)

\* text.replace(linkRegex, '$1 ($2)') from index i on
RECURSIVE LinksToTextFrom(_, _)
LinksToTextFrom(s, i) ==
    LET m == LinkExec(s, i)
    IN  IF m.index < 0 THEN Tail0(s, i)
        ELSE Substring(s, i, m.index)
             \o m.linkText \o <<" ", "(">> \o m.url \o <<")">>
             \o LinksToTextFrom(s, m.index + Len(m.fullMatch))

ParseMarkdownToText(md) ==
    ListStep(CollapseStep(RomanStep(LettersStep(
        EmphasisStep(HeaderStep(LinksToTextFrom(md, 0)))))))

\* the numbers of generatePDF: where the first prompt line goes, the step
\* from line to line, the page-bottom threshold, the top of a new page, the
\* gap before and after the heading
FirstLineY == 85
LineStep == 5
PageBottom == 250
PageTop == 20
HeadingGap == 10

\* pdf.text(what, 20, y) on the current page
Drawn(kind, what, page, y) == [kind |-> kind, text |-> what, page |-> page, y |-> y]

\* lines 64 to 91: the fixed part of the first page, then
\* this.splitTextToFit(prompt, 170) is called
BeginReport ==
    /\ epc = "called"
    /\ pages' = 1
    /\ drawn' = <<Drawn("title", <<"Legal ", Role(data.isPlaintiff), " Review Results">>, 1, 20),
                  Drawn("info", <<"Document: ", data.fileName>>, 1, 35),
                  Drawn("info", <<"Role: ", Role(data.isPlaintiff)>>, 1, 45),
                  Drawn("info", <<"Generated: ", "now">>, 1, 55),
                  Drawn("label", <<"Original Prompt:">>, 1, 75)>>
    /\ stext' = data.prompt
    /\ maxWidth' = PageWidth
    /\ spc' = "called"
    /\ epc' = "wrapPrompt"
    /\ UNCHANGED <<data, promptLines, resultLines, yPosition, iter,
                   words, lines, currentLine, rvars, hvars>>

\* splitTextToFit has returned the prompt lines; let yPosition = 85
PromptWrapped ==
    /\ epc = "wrapPrompt"
    /\ spc = "returned"
    /\ promptLines' = lines
    /\ yPosition' = FirstLineY
    /\ iter' = 0
    /\ spc' = "idle"
    /\ epc' = "prompt"
    /\ UNCHANGED <<data, resultLines, pages, drawn,
                   maxWidth, stext, words, lines, currentLine, rvars, hvars>>

\* one iteration of a for loop over fitted lines: the page break when
\* yPosition is beyond the threshold, then the line
DrawLine(kind, fitted) ==
    /\ iter < Len(fitted)
    /\ LET break == yPosition > PageBottom
           y     == IF break THEN PageTop ELSE yPosition
       IN  /\ pages' = IF break THEN pages + 1 ELSE pages
           /\ drawn' = Append(drawn, Drawn(kind, fitted[iter + 1], pages', y))
           /\ yPosition' = y + LineStep
    /\ iter' = iter + 1

DrawPromptLine ==
    /\ epc = "prompt"
    /\ DrawLine("promptLine", promptLines)
    /\ UNCHANGED <<epc, data, promptLines, resultLines, rvars, hvars, svars>>

\* lines 104 to 111: the heading, then this.splitTextToFit(parsedResult, 170)
\* is called
DrawHeading ==
    /\ epc = "prompt"
    /\ iter = Len(promptLines)
    /\ drawn' = Append(drawn, Drawn("heading", <<"Analysis Results:">>, pages,
                                    yPosition + HeadingGap))
    /\ yPosition' = yPosition + HeadingGap + HeadingGap
    /\ stext' = ParseMarkdownToText(data.result)
    /\ maxWidth' = PageWidth
    /\ spc' = "called"
    /\ epc' = "wrapResult"
    /\ UNCHANGED <<data, promptLines, resultLines, iter, pages,
                   words, lines, currentLine, rvars, hvars>>

\* splitTextToFit has returned the result lines
ResultWrapped ==
    /\ epc = "wrapResult"
    /\ spc = "returned"
    /\ resultLines' = lines
    /\ iter' = 0
    /\ spc' = "idle"
    /\ epc' = "result"
    /\ UNCHANGED <<data, promptLines, yPosition, pages, drawn,
                   maxWidth, stext, words, lines, currentLine, rvars, hvars>>

DrawResultLine ==
    /\ epc = "result"
    /\ DrawLine("resultLine", resultLines)
    /\ UNCHANGED <<epc, data, promptLines, resultLines, rvars, hvars, svars>>

\* return pdf.output('datauristring').split(',')[1]
OutputPdf ==
    /\ epc = "result"
    /\ iter = Len(resultLines)
    /\ epc' = "done"
    /\ UNCHANGED <<data, promptLines, resultLines, yPosition, iter, pages, drawn,
                   rvars, hvars, svars>>

\* generatePDF, with the two calls of splitTextToFit it makes
GeneratePdf ==
    \/ BeginReport
    \/ PromptWrapped
    \/ DrawPromptLine
    \/ DrawHeading
    \/ ResultWrapped
    \/ DrawResultLine
    \/ OutputPdf
    \/ Wrap

\* prompts of up to MaxPromptWords words, each of which takes a line of its
\* own (two of LongWordLen characters and a space are more than 68)
MaxPromptWords == 36
LongWordLen == 35

LongWords(n) ==
    [k \in 1..(n * (LongWordLen + 1) - 1) |->
        IF k % (LongWordLen + 1) = 0 THEN " " ELSE "x"]

Prompts == {LongWords(n) : n \in 0..MaxPromptWords} \cup {<<"a", " ", "b">>}

Results ==
    {<<>>,
     <<"a">>,
     <<"[", "a", "]", "(", "u", ")", " ", "b">>,
     <<"-", " ", "a", NL, "-", " ", "b">>,
     <<"#", " ", "a", NL, "A", ".", " ", "b", ".", " ", "B", ".", " ">>}

InitPdf ==
    /\ RenderIdle
    /\ HandlerIdle
    /\ SplitIdle
    /\ epc = "called"
    /\ data \in [prompt : Prompts, result : Results, isPlaintiff : BOOLEAN,
                 fileName : DocumentNames]
    /\ promptLines = <<>>
    /\ resultLines = <<>>
    /\ yPosition = 0
    /\ iter = 0
    /\ pages = 0
    /\ drawn = <<>>

SpecPdf == InitPdf /\ [][GeneratePdf]_vars

FlowKinds == {"promptLine", "heading", "resultLine"}

\* C11 (as claimed): every text element of the flowing part of the report
\* (each prompt line, the 'Analysis Results:' heading, each result line) is
\* drawn at a vertical position of at most the page-bottom threshold 250.
FlowDrawnWithinPageBottom ==
    \A k \in 1..Len(drawn) :
        drawn[k].kind \in FlowKinds => drawn[k].y <= PageBottom

\* C11, for the lines alone: every prompt line and every result line is
\* drawn at most at 250, and the heading at most at 265, on the page the
\* last prompt line is on.
LinesDrawnWithinPageBottom ==
    \A k \in 1..Len(drawn) :
        /\ drawn[k].kind \in {"promptLine", "resultLine"} => drawn[k].y <= PageBottom
        /\ drawn[k].kind = "heading" =>
              /\ drawn[k].y <= PageBottom + LineStep + HeadingGap
              /\ drawn[k].page = drawn[k - 1].page

\* a report of more than one page whose heading is within the threshold
LinesDrawnWitness ==
    /\ epc = "done"
    /\ pages >= 2
    /\ \E k \in 1..Len(drawn) : drawn[k].kind = "heading" /\ drawn[k].y <= PageBottom
    /\ \E k \in 1..Len(drawn) : drawn[k].kind = "resultLine" /\ drawn[k].y = PageTop

----------------------------------------------------------------------------
(* Word wrap *)

\* the non-empty space-separated words of t, in order
WordsOf(t) ==
    LET NotEmpty(word) == word # <<>>
    IN  SelectSeq(SplitOnSpace(t), NotEmpty)

WordsOfLines(ls) == Flatten([k \in 1..Len(ls) |-> WordsOf(ls[k])])

\* C12 (as claimed): every line splitTextToFit returns fits the width
\* estimate (length times 2.5 at most maxWidth), none is empty, and the
\* non-empty words of the text are in the lines in their order, none lost.
WrappedLinesFitAndKeepWords ==
    spc = "returned" =>
        /\ \A k \in 1..Len(lines) :
              /\ FitsWidth(lines[k], maxWidth)
              /\ lines[k] # <<>>
        /\ WordsOfLines(lines) = WordsOf(stext)

\* C12, without the width of a line that is one word: no line is empty, the
\* words are kept in order, and a line that does not fit the estimate is a
\* single word (it holds no space).
WrappedLinesKeepWords ==
    spc = "returned" =>
        /\ lines = SplitTextToFit(stext, maxWidth)
        /\ \A k \in 1..Len(lines) :
              /\ lines[k] # <<>>
              /\ FitsWidth(lines[k], maxWidth) \/ Len(SplitOnSpace(lines[k])) = 1
        /\ WordsOfLines(lines) = WordsOf(stext)

\* a text wrapped to the page width into two lines or more that all fit,
\* with doubled spaces kept inside a line
WrappedLinesWitness ==
    /\ spc = "returned"
    /\ maxWidth = 10
    /\ Len(lines) >= 2
    /\ \A k \in 1..Len(lines) : FitsWidth(lines[k], maxWidth)
    /\ \E k \in 1..Len(lines) : \E w \in 2..(Len(SplitOnSpace(lines[k])) - 1) :
          SplitOnSpace(lines[k])[w] = <<>>

\* a word of 69 characters is a line of its own at the page width
OverlongWordWitness ==
    /\ spc = "returned"
    /\ maxWidth = PageWidth
    /\ \E k \in 1..Len(lines) : Len(lines[k]) = OverlongWordLen

============================================================================
